---- MODULE Spec2Model ----
(***************************************************************************)
(* A model of bot.py: module-level configuration and validation, the usage *)
(* tracker (daily_users / track_user), the reply sender (safe_reply), the  *)
(* thirteen handlers registered by run_bot, the Flask liveness listener on *)
(* its daemon thread, and the main thread that starts both.                *)
(*                                                                         *)
(* A handler runs to completion before the next update is dispatched (the  *)
(* Application processes updates one at a time), so each handler is one    *)
(* action.  What the handler did, in order, is kept in lastEvent.trace: a  *)
(* sequence of steps (track / reply / ai / log).  A "reply" step is one    *)
(* call of safe_reply, i.e. one outbound reply handed to the reply sender, *)
(* together with what became of it (sent, failed, dropped).  The update and *)
(* its replies are transient: lastEvent is NoEvent again once the handler   *)
(* has returned and the application waits for the next update.             *)
(***************************************************************************)
EXTENDS Integers, Sequences, FiniteSets, TLC

\* ---------------------------------------------------------------- bounds
MaxUser == 1
MaxDay == 2

Users == 0..MaxUser
Days == 1..MaxDay

\* ------------------------------------------------------ environment values
\* os.environ.get returns None for a variable that is not set.
None == "<None>"
\* Values the two credentials may have in the environment.
CredentialEnv == {None, "", "secret"}
\* Values ADMIN_ID may have in the environment.
AdminEnv == {None, "abc", "0", "1"}
\* Values PORT may have in the environment.
PortEnv == {None, "8080", "http"}

\* Python truthiness of a str-or-None value (line 31: `not TELEGRAM_TOKEN`).
TruthyStr(s) == s # None /\ s # ""

\* int(s) on the strings above: <<n>> for a parsed integer, <<>> when int()
\* raises ValueError (not a numeral) or TypeError (None).
ParseInt(s) ==
    CASE s = "0" -> <<0>>
      [] s = "1" -> <<1>>
      [] s = "8080" -> <<8080>>
      [] OTHER -> <<>>

\* Lines 18-21: ADMIN_ID = int(env) or None on ValueError / TypeError.
\* None is the empty tuple, an integer n is <<n>>.
AdminIdOf(s) == ParseInt(s)

\* Python truthiness of ADMIN_ID (line 209: `if ADMIN_ID and ...`): None and 0
\* are both falsy.
TruthyAdmin(a) == a # <<>> /\ a[1] # 0

VARIABLES
    pc,              \* position of the main thread
    TELEGRAM_TOKEN,  \* line 16
    GEMINI_API_KEY,  \* line 17
    ADMIN_ID,        \* lines 18-21
    model,           \* TRUE once the global `model` is bound (line 38)
    daily_users,     \* line 45: date -> set of user ids
    today,           \* what date.today() returns
    web,             \* state of the liveness-listener thread
    log,             \* process-level log entries written so far
    lastEvent,       \* the update being processed and what its handler did
    sightings        \* history: <<day, uid>> of every tracked event handled

vars == <<pc, TELEGRAM_TOKEN, GEMINI_API_KEY, ADMIN_ID, model, daily_users,
          today, web, log, lastEvent, sightings>>

\* ------------------------------------------------------------ trace steps
TrackStep == [op |-> "track", what |-> "daily_users", res |-> "ok", n |-> 0]
ReplyStep(text, n, res) == [op |-> "reply", what |-> text, res |-> res, n |-> n]
AiStep(res) == [op |-> "ai", what |-> "generate_content", res |-> res, n |-> 0]
LogStep(tag) == [op |-> "log", what |-> tag, res |-> "ok", n |-> 0]

NoEvent ==
    [handler |-> "none", uid |-> 0, day |-> 0, message |-> FALSE,
     text |-> FALSE, args |-> FALSE, ai |-> "-", trace |-> <<>>,
     escaped |-> FALSE]

\* ---------------------------------------------------------- usage tracker
\* track_user with `daily_users[today] = {user_id}` in place of the add.
track_user_overwrite(du, user_id, day) ==
    IF day \in DOMAIN du THEN [du EXCEPT ![day] = {user_id}]
    ELSE du @@ (day :> {user_id})

\* Lines 51-56.
track_user(du, user_id, day) ==
    LET created == IF day \notin DOMAIN du THEN du @@ (day :> {}) ELSE du
    IN  [created EXCEPT ![day] = @ \cup {user_id}]

\* Line 211: len(daily_users.get(date.today(), set())).
user_count(du, day) == IF day \in DOMAIN du THEN Cardinality(du[day]) ELSE 0

\* ------------------------------------------------------------ reply sender
\* safe_reply without its try/except: a raising reply_text propagates.
safe_reply_propagates(message, text, n, deliver) ==
    IF ~message
    THEN [steps |-> <<ReplyStep(text, n, "dropped"),
                      LogStep("safe_reply_invalid_update")>>,
          raised |-> FALSE]
    ELSE [steps |-> <<ReplyStep(text, n, IF deliver = "ok" THEN "sent" ELSE "failed")>>,
          raised |-> (deliver # "ok")]

\* Lines 59-67.  `message` is whether update.message is present, `deliver`
\* whether reply_text returns ("ok") or raises ("raise").  The result is the
\* steps taken and whether an exception leaves safe_reply.
safe_reply(message, text, n, deliver) ==
    IF ~message
    THEN [steps |-> <<ReplyStep(text, n, "dropped"),
                      LogStep("safe_reply_invalid_update")>>,
          raised |-> FALSE]
    ELSE IF deliver = "ok"
    THEN [steps |-> <<ReplyStep(text, n, "sent")>>, raised |-> FALSE]
    ELSE [steps |-> <<ReplyStep(text, n, "failed"),
                      LogStep("telegram_reply_failed")>>,
          raised |-> FALSE]

\* ------------------------------------------------- sequencing of a handler
\* The running state of a handler: the usage record, the steps so far, and
\* whether an exception is propagating.
Begin(du) == [du |-> du, trace |-> <<>>, exc |-> FALSE]

\* track_user(update.effective_user.id)
Track(s, uid, day) ==
    [s EXCEPT !.du = track_user(s.du, uid, day),
              !.trace = Append(@, TrackStep)]

\* await safe_reply(update, text)
Reply(s, message, text, n, deliver) ==
    LET r == safe_reply(message, text, n, deliver)
    IN  [s EXCEPT !.trace = @ \o r.steps, !.exc = r.raised]

\* response = model.generate_content(prompt)
Generate(s, ai) ==
    [s EXCEPT !.trace = Append(@, AiStep(IF ai = "ok" THEN "ok" ELSE "raised")),
              !.exc = (ai # "ok")]

\* except Exception as e: logging.error(...)
Caught(s, tag) == [s EXCEPT !.exc = FALSE, !.trace = Append(@, LogStep(tag))]

\* ----------------------------------------------------------------- handlers
\* The shape shared by start, help_command, website, roadmaps, blog, connect
\* and clear_chat: try: track_user; safe_reply(text)  except: logging.error.
StaticHandler(du, uid, day, message, deliver, text, errtag) ==
    LET s1 == Track(Begin(du), uid, day)
        s2 == Reply(s1, message, text, 0, deliver)
    IN  IF s2.exc THEN Caught(s2, errtag) ELSE s2

\* Lines 73-84.
start(du, uid, day, message, deliver) ==
    StaticHandler(du, uid, day, message, deliver, "welcome_message", "error_in_start")

\* Lines 86-105.
help_command(du, uid, day, message, deliver) ==
    StaticHandler(du, uid, day, message, deliver, "help_text", "error_in_help")

\* Lines 107-114.
website(du, uid, day, message, deliver) ==
    StaticHandler(du, uid, day, message, deliver, "visit_website", "error_in_website")

\* Lines 116-123.
roadmaps(du, uid, day, message, deliver) ==
    StaticHandler(du, uid, day, message, deliver, "view_roadmaps", "error_in_roadmaps")

\* Lines 125-132.
blog(du, uid, day, message, deliver) ==
    StaticHandler(du, uid, day, message, deliver, "read_blog", "error_in_blog")

\* Lines 145-156.
connect(du, uid, day, message, deliver) ==
    StaticHandler(du, uid, day, message, deliver, "connect_platforms", "error_in_connect")

\* Lines 185-191.
clear_chat(du, uid, day, message, deliver) ==
    StaticHandler(du, uid, day, message, deliver, "clear_info", "error_in_clear")

\* AiCommand with one retry of generate_content when the first call raises.
AiCommand_retry(s1, message, ai, d1, d2, interim, errtag, failure) ==
    LET s2 == Reply(s1, message, interim, 0, d1)
        first == Generate(s2, ai)
        s3 == IF first.exc THEN Generate(first, ai) ELSE first
        tried == IF s3.exc THEN s3 ELSE Reply(s3, message, "response_text", 0, d2)
        done == IF tried.exc
                THEN Reply(Caught(tried, errtag), message, failure, 0, d2)
                ELSE tried
    IN  IF s2.exc THEN s2 ELSE done

\* The shape shared by dsa, idea and explain once the sighting is recorded:
\*     await safe_reply(update, interim)          (outside the try)
\*     try:    response = model.generate_content(prompt)
\*             await safe_reply(update, response.text)
\*     except: logging.error(...); await safe_reply(update, failure)
\* d1 is the delivery outcome of the interim reply, d2 of the final one.
AiCommand(s1, message, ai, d1, d2, interim, errtag, failure) ==
    LET s2 == Reply(s1, message, interim, 0, d1)
        s3 == Generate(s2, ai)
        tried == IF s3.exc THEN s3 ELSE Reply(s3, message, "response_text", 0, d2)
        done == IF tried.exc
                THEN Reply(Caught(tried, errtag), message, failure, 0, d2)
                ELSE tried
    IN  IF s2.exc THEN s2 ELSE done

\* Lines 134-143.
dsa(du, uid, day, message, ai, d1, d2) ==
    AiCommand(Track(Begin(du), uid, day), message, ai, d1, d2,
              "dsa_interim", "gemini_error_dsa", "dsa_failure")

\* Lines 158-167.
idea(du, uid, day, message, ai, d1, d2) ==
    AiCommand(Track(Begin(du), uid, day), message, ai, d1, d2,
              "idea_interim", "gemini_error_idea", "idea_failure")

\* explain with the argument check ahead of track_user.
explain_args_first(du, uid, day, message, args, ai, d1, d2) ==
    IF ~args
    THEN Reply(Begin(du), message, "explain_usage", 0, d1)
    ELSE AiCommand(Track(Begin(du), uid, day), message, ai, d1, d2,
                   "explain_interim", "gemini_error_explain", "explain_failure")

\* explain without the `return` after the usage reply.
explain_fallthrough(du, uid, day, message, args, ai, d1, d2) ==
    LET s1 == Track(Begin(du), uid, day)
        s2 == IF ~args THEN Reply(s1, message, "explain_usage", 0, d1) ELSE s1
    IN  AiCommand(s2, message, ai, d1, d2,
                  "explain_interim", "gemini_error_explain", "explain_failure")

\* Lines 169-183.  `args` is whether context.args is non-empty.
explain(du, uid, day, message, args, ai, d1, d2) ==
    LET s1 == Track(Begin(du), uid, day)
    IN  IF ~args
        THEN Reply(s1, message, "explain_usage", 0, d1)
        ELSE AiCommand(s1, message, ai, d1, d2,
                       "explain_interim", "gemini_error_explain", "explain_failure")

\* Lines 194-206.
feedback(du, uid, day, message, args, deliver) ==
    LET s1 == Track(Begin(du), uid, day)
        usage == Reply(s1, message, "feedback_usage", 0, deliver)
        logged == [s1 EXCEPT !.trace = Append(@, LogStep("feedback_received"))]
        thanks == Reply(logged, message, "feedback_thanks", 0, deliver)
        body == IF ~args THEN usage ELSE thanks
    IN  IF body.exc THEN Caught(body, "error_in_feedback") ELSE body

\* stats reading the count with daily_users.setdefault(today, set()).
stats_setdefault(du, uid, day, message, admin, deliver) ==
    IF TruthyAdmin(admin) /\ uid = admin[1]
    THEN LET made == IF day \in DOMAIN du THEN du ELSE du @@ (day :> {})
             s1 == Reply(Begin(made), message, "stats_count",
                         Cardinality(made[day]), deliver)
         IN  IF s1.exc THEN Caught(s1, "error_in_stats") ELSE s1
    ELSE [Begin(du) EXCEPT !.trace = <<LogStep("unauthorized_stats")>>]

\* Lines 208-216.  `admin` is the value of ADMIN_ID.
stats(du, uid, day, message, admin, deliver) ==
    IF TruthyAdmin(admin) /\ uid = admin[1]
    THEN LET s1 == Reply(Begin(du), message, "stats_count", user_count(du, day), deliver)
         IN  IF s1.exc THEN Caught(s1, "error_in_stats") ELSE s1
    ELSE [Begin(du) EXCEPT !.trace = <<LogStep("unauthorized_stats")>>]

\* handle_message with the completion call outside any try.
handle_message_unguarded(du, uid, day, message, text, defined, ai, deliver) ==
    IF ~message \/ ~text
    THEN [Begin(du) EXCEPT !.trace = <<LogStep("update_without_text")>>]
    ELSE
    LET s1 == Track(Begin(du), uid, day)
        s3 == Generate(s1, ai)
    IN  IF s3.exc THEN s3 ELSE Reply(s3, message, "response_text", 0, deliver)

\* Lines 219-243.  `message` is whether update.message is present, `text`
\* whether update.message.text is non-empty, `defined` whether the global
\* `model` is bound.
handle_message(du, uid, day, message, text, defined, ai, deliver) ==
    IF ~message \/ ~text
    THEN [Begin(du) EXCEPT !.trace = <<LogStep("update_without_text")>>]
    ELSE
    LET s1 == Track(Begin(du), uid, day)
        s2 == [s1 EXCEPT !.trace = Append(@, LogStep("attempting_generation"))]
        config == Reply([s2 EXCEPT !.trace = Append(@, LogStep("model_not_defined"))],
                        message, "internal_configuration_error", 0, deliver)
        s3 == Generate(s2, ai)
        s4 == Reply(s3, message, "response_text", 0, deliver)
        sent == IF s4.exc THEN s4
                ELSE [s4 EXCEPT !.trace = Append(@, LogStep("sent_ai_response"))]
        tried == IF ~defined THEN config ELSE IF s3.exc THEN s3 ELSE sent
    IN  IF tried.exc
        THEN Reply(Caught(tried, "gemini_error"), message, "ai_brain_failure", 0, deliver)
        ELSE tried

\* ------------------------------------------------------------------ startup
\* Line 256: the default of os.environ.get("PORT", 8000).
DefaultPort == 8000

Init ==
    /\ pc = "import"
    /\ TELEGRAM_TOKEN = None
    /\ GEMINI_API_KEY = None
    /\ ADMIN_ID = <<>>
    /\ model = FALSE
    /\ daily_users = <<>>
    /\ today = 1
    /\ web = "not_started"
    /\ log = {}
    /\ lastEvent = NoEvent
    /\ sightings = {}

\* The listener thread without daemon = True: it outlives the main thread.
AtExit_non_daemon(w) == w

\* The interpreter ends: a daemon thread that is still alive ends with it
\* (line 299, web_server_thread.daemon = True).
AtExit(w) == IF w \in {"started", "serving"} THEN "killed" ELSE w

\* Lines 16-21: read the environment.
LoadConfig ==
    /\ pc = "import"
    /\ \E t \in CredentialEnv, g \in CredentialEnv, a \in AdminEnv :
          /\ TELEGRAM_TOKEN' = t
          /\ GEMINI_API_KEY' = g
          /\ ADMIN_ID' = AdminIdOf(a)
    /\ pc' = "validate"
    /\ UNCHANGED <<model, daily_users, today, web, log, lastEvent, sightings>>

\* The validation with `and` in place of `or`.
ValidateConfig_and ==
    /\ pc = "validate"
    /\ IF ~TruthyStr(TELEGRAM_TOKEN) /\ ~TruthyStr(GEMINI_API_KEY)
       THEN /\ log' = log \cup {"critical_credentials_not_set"}
            /\ pc' = "exited"
            /\ web' = web
       ELSE /\ pc' = "configure_ai"
            /\ UNCHANGED <<log, web>>
    /\ UNCHANGED <<TELEGRAM_TOKEN, GEMINI_API_KEY, ADMIN_ID, model, daily_users,
                   today, lastEvent, sightings>>

\* Lines 31-33.
ValidateConfig ==
    /\ pc = "validate"
    /\ IF ~TruthyStr(TELEGRAM_TOKEN) \/ ~TruthyStr(GEMINI_API_KEY)
       THEN /\ log' = log \cup {"critical_credentials_not_set"}
            /\ pc' = "exited"
            /\ web' = AtExit(web)
       ELSE /\ pc' = "configure_ai"
            /\ UNCHANGED <<log, web>>
    /\ UNCHANGED <<TELEGRAM_TOKEN, GEMINI_API_KEY, ADMIN_ID, model, daily_users,
                   today, lastEvent, sightings>>

\* Lines 35-45: genai.configure and GenerativeModel return or raise; then
\* daily_users = {}.
ConfigureAI ==
    /\ pc = "configure_ai"
    /\ \E ok \in BOOLEAN :
          IF ok
          THEN /\ model' = TRUE
               /\ log' = log \cup {"info_ai_configured"}
               /\ daily_users' = <<>>
               /\ pc' = "main"
               /\ web' = web
          ELSE /\ log' = log \cup {"fatal_ai_configure"}
               /\ pc' = "exited"
               /\ web' = AtExit(web)
               /\ UNCHANGED <<model, daily_users>>
    /\ UNCHANGED <<TELEGRAM_TOKEN, GEMINI_API_KEY, ADMIN_ID, today, lastEvent,
                   sightings>>

\* Lines 295-301: start the daemon thread that runs run_web_server.
Main ==
    /\ pc = "main"
    /\ web' = "started"
    /\ log' = log \cup {"info_starting_application", "info_web_thread_started"}
    /\ pc' = "run_bot"
    /\ UNCHANGED <<TELEGRAM_TOKEN, GEMINI_API_KEY, ADMIN_ID, model, daily_users,
                   today, lastEvent, sightings>>

\* Lines 266-288 and 291-293: build the application, register the handlers
\* and enter run_polling; an exception on the way is logged as critical and
\* followed by exit().
run_bot ==
    /\ pc = "run_bot"
    /\ \E ok \in BOOLEAN :
          IF ok
          THEN /\ log' = log \cup {"info_polling_starting"}
               /\ pc' = "polling"
               /\ web' = web
          ELSE /\ log' = log \cup {"critical_bot_start"}
               /\ pc' = "exited"
               /\ web' = AtExit(web)
    /\ UNCHANGED <<TELEGRAM_TOKEN, GEMINI_API_KEY, ADMIN_ID, model, daily_users,
                   today, lastEvent, sightings>>

\* Lines 288-289: run_polling returns (the process was told to stop, which
\* takes effect between two updates); the main thread ends and the process
\* with it.
PollingStops ==
    /\ pc = "polling"
    /\ lastEvent = NoEvent
    /\ log' = log \cup {"info_polling_stopped"}
    /\ pc' = "exited"
    /\ web' = AtExit(web)
    /\ UNCHANGED <<TELEGRAM_TOKEN, GEMINI_API_KEY, ADMIN_ID, model, daily_users,
                   today, lastEvent, sightings>>

\* Lines 288 and 291-293: run_polling raises.
PollingFails ==
    /\ pc = "polling"
    /\ lastEvent = NoEvent
    /\ log' = log \cup {"critical_bot_start"}
    /\ pc' = "exited"
    /\ web' = AtExit(web)
    /\ UNCHANGED <<TELEGRAM_TOKEN, GEMINI_API_KEY, ADMIN_ID, model, daily_users,
                   today, lastEvent, sightings>>

\* ------------------------------------------------------- liveness listener
\* What run_web_server does when the thread first runs (lines 255-261):
\* `port` is PORT in the environment, `bind` whether flask_app.run gets to
\* serve.  An unparsable PORT raises ValueError outside the try: the thread
\* ends and nothing is logged through logging.
run_web_server(port, bind, lg) ==
    LET p == IF port = None THEN <<DefaultPort>> ELSE ParseInt(port)
    IN  IF p = <<>>
        THEN [web |-> "crashed", log |-> lg]
        ELSE IF bind
        THEN [web |-> "serving", log |-> lg \cup {"info_starting_flask"}]
        ELSE [web |-> "failed",
              log |-> lg \cup {"info_starting_flask", "error_web_server_failed"}]

WebServerStarts ==
    /\ web = "started"
    /\ \E port \in PortEnv, bind \in BOOLEAN :
          LET r == run_web_server(port, bind, log)
          IN  web' = r.web /\ log' = r.log
    /\ UNCHANGED <<pc, TELEGRAM_TOKEN, GEMINI_API_KEY, ADMIN_ID, model,
                   daily_users, today, lastEvent, sightings>>

\* Lines 259-261: flask_app.run raises while serving.
WebServerFails ==
    /\ web = "serving"
    /\ web' = "failed"
    /\ log' = log \cup {"error_web_server_failed"}
    /\ UNCHANGED <<pc, TELEGRAM_TOKEN, GEMINI_API_KEY, ADMIN_ID, model,
                   daily_users, today, lastEvent, sightings>>

\* Lines 250-253: a liveness probe is answered.
index ==
    /\ web = "serving"
    /\ log' = log \cup {"info_health_check"}
    /\ UNCHANGED <<pc, TELEGRAM_TOKEN, GEMINI_API_KEY, ADMIN_ID, model,
                   daily_users, today, web, lastEvent, sightings>>

\* ------------------------------------------------------------ event loop
\* date.today() moves on to the next calendar day.  A handler reads the date
\* at most once, so a change of date during an update is the same as one
\* just before or just after it.
NextDay ==
    /\ pc = "polling"
    /\ lastEvent = NoEvent
    /\ today < MaxDay
    /\ today' = today + 1
    /\ UNCHANGED <<pc, TELEGRAM_TOKEN, GEMINI_API_KEY, ADMIN_ID, model,
                   daily_users, web, log, lastEvent, sightings>>

Outcomes == {"ok", "raise"}
\* reply_text is only reached when update.message is present.
Deliveries(message) == IF message THEN Outcomes ELSE {"ok"}

\* Which updates record a sighting: every handler but stats, and the
\* free-text handler only for an update that carries text.
Tracked(h, message, text) ==
    /\ h # "stats"
    /\ (h = "handle_message" => message /\ text)

\* Lines 272-288: the application hands one update to the handler registered
\* for it; r is what the handler did.
Dispatch(h, uid, message, text, args, ai, r) ==
    /\ pc = "polling"
    /\ lastEvent = NoEvent
    /\ daily_users' = r.du
    /\ lastEvent' = [handler |-> h, uid |-> uid, day |-> today,
                     message |-> message, text |-> text, args |-> args,
                     ai |-> ai, trace |-> r.trace, escaped |-> r.exc]
    /\ sightings' = IF Tracked(h, message, text)
                    THEN sightings \cup {<<today, uid>>}
                    ELSE sightings
    /\ UNCHANGED <<pc, TELEGRAM_TOKEN, GEMINI_API_KEY, ADMIN_ID, model, today,
                   web, log>>

\* The handler has returned: the update is consumed and the application takes
\* the next one.  An exception that left the handler is logged by the
\* application and does not end run_polling.
UpdateDone ==
    /\ pc = "polling"
    /\ lastEvent # NoEvent
    /\ lastEvent' = NoEvent
    /\ UNCHANGED <<pc, TELEGRAM_TOKEN, GEMINI_API_KEY, ADMIN_ID, model,
                   daily_users, today, web, log, sightings>>

OnStart ==
    \E uid \in Users, m \in BOOLEAN : \E d \in Deliveries(m) :
        Dispatch("start", uid, m, TRUE, FALSE, "-", start(daily_users, uid, today, m, d))

OnHelp ==
    \E uid \in Users, m \in BOOLEAN : \E d \in Deliveries(m) :
        Dispatch("help", uid, m, TRUE, FALSE, "-",
                 help_command(daily_users, uid, today, m, d))

OnWebsite ==
    \E uid \in Users, m \in BOOLEAN : \E d \in Deliveries(m) :
        Dispatch("website", uid, m, TRUE, FALSE, "-",
                 website(daily_users, uid, today, m, d))

OnRoadmaps ==
    \E uid \in Users, m \in BOOLEAN : \E d \in Deliveries(m) :
        Dispatch("roadmaps", uid, m, TRUE, FALSE, "-",
                 roadmaps(daily_users, uid, today, m, d))

OnBlog ==
    \E uid \in Users, m \in BOOLEAN : \E d \in Deliveries(m) :
        Dispatch("blog", uid, m, TRUE, FALSE, "-", blog(daily_users, uid, today, m, d))

OnConnect ==
    \E uid \in Users, m \in BOOLEAN : \E d \in Deliveries(m) :
        Dispatch("connect", uid, m, TRUE, FALSE, "-",
                 connect(daily_users, uid, today, m, d))

OnClear ==
    \E uid \in Users, m \in BOOLEAN : \E d \in Deliveries(m) :
        Dispatch("clear", uid, m, TRUE, FALSE, "-",
                 clear_chat(daily_users, uid, today, m, d))

OnDsa ==
    \E uid \in Users, m \in BOOLEAN, ai \in Outcomes :
      \E d1 \in Deliveries(m), d2 \in Deliveries(m) :
        Dispatch("dsa", uid, m, TRUE, FALSE, ai,
                 dsa(daily_users, uid, today, m, ai, d1, d2))

OnIdea ==
    \E uid \in Users, m \in BOOLEAN, ai \in Outcomes :
      \E d1 \in Deliveries(m), d2 \in Deliveries(m) :
        Dispatch("idea", uid, m, TRUE, FALSE, ai,
                 idea(daily_users, uid, today, m, ai, d1, d2))

OnExplain ==
    \E uid \in Users, m \in BOOLEAN, args \in BOOLEAN :
      \E ai \in (IF args THEN Outcomes ELSE {"-"}), d1 \in Deliveries(m),
         d2 \in (IF args THEN Deliveries(m) ELSE {"ok"}) :
        Dispatch("explain", uid, m, TRUE, args, ai,
                 explain(daily_users, uid, today, m, args, ai, d1, d2))

OnFeedback ==
    \E uid \in Users, m \in BOOLEAN, args \in BOOLEAN : \E d \in Deliveries(m) :
        Dispatch("feedback", uid, m, TRUE, args, "-",
                 feedback(daily_users, uid, today, m, args, d))

OnStats ==
    \E uid \in Users, m \in BOOLEAN : \E d \in Deliveries(m) :
        Dispatch("stats", uid, m, TRUE, FALSE, "-",
                 stats(daily_users, uid, today, m, ADMIN_ID, d))

\* The free-text handler is registered for text updates; it still checks for
\* an update without a message or without text (lines 221-223).
OnMessage ==
    \E uid \in Users, m \in BOOLEAN :
      \E t \in (IF m THEN BOOLEAN ELSE {FALSE}) :
        \E ai \in (IF m /\ t THEN Outcomes ELSE {"-"}),
           d \in (IF m /\ t THEN Outcomes ELSE {"ok"}) :
          Dispatch("handle_message", uid, m, t, FALSE, ai,
                   handle_message(daily_users, uid, today, m, t, model, ai, d))

Next ==
    \/ LoadConfig
    \/ ValidateConfig
    \/ ConfigureAI
    \/ Main
    \/ run_bot
    \/ PollingStops
    \/ PollingFails
    \/ WebServerStarts
    \/ WebServerFails
    \/ index
    \/ NextDay
    \/ UpdateDone
    \/ OnStart
    \/ OnHelp
    \/ OnWebsite
    \/ OnRoadmaps
    \/ OnBlog
    \/ OnConnect
    \/ OnClear
    \/ OnDsa
    \/ OnIdea
    \/ OnExplain
    \/ OnFeedback
    \/ OnStats
    \/ OnMessage

Spec == Init /\ [][Next]_vars

\* ------------------------------------------------- reading a handler's trace
Replies(tr) == SelectSeq(tr, LAMBDA st : st.op = "reply")
AiCalls(tr) == SelectSeq(tr, LAMBDA st : st.op = "ai")
Tracks(tr) == SelectSeq(tr, LAMBDA st : st.op = "track")

\* The steps of a trace other than log entries, as <<op, what>> pairs: what
\* the handler did, leaving out how each delivery and each completion ended.
Shape(tr) ==
    LET acts == SelectSeq(tr, LAMBDA st : st.op # "log")
    IN  [i \in 1..Len(acts) |-> <<acts[i].op, acts[i].what>>]

AiHandlers == {"dsa", "idea", "explain", "handle_message"}
\* The event reached the completion call of an AI-backed handler.
AiBacked(ev) ==
    /\ ev.handler \in AiHandlers
    /\ (ev.handler = "explain" => ev.args)
    /\ (ev.handler = "handle_message" => ev.message /\ ev.text)

InterimText(h) ==
    CASE h = "dsa" -> "dsa_interim"
      [] h = "idea" -> "idea_interim"
      [] h = "explain" -> "explain_interim"
      [] OTHER -> "-"

FailureText(h) ==
    CASE h = "dsa" -> "dsa_failure"
      [] h = "idea" -> "idea_failure"
      [] h = "explain" -> "explain_failure"
      [] h = "handle_message" -> "ai_brain_failure"
      [] OTHER -> "-"

\* The distinct users that sent a tracked event on day d.
SendersOn(d) == {u \in Users : <<d, u>> \in sightings}

\* Lines 272-285: the dispatch table, as a function of the handler's name.
Handle(h, du, uid, day, message, text, args, ai, d1, d2, admin, defined) ==
    CASE h = "start" -> start(du, uid, day, message, d1)
      [] h = "help" -> help_command(du, uid, day, message, d1)
      [] h = "website" -> website(du, uid, day, message, d1)
      [] h = "roadmaps" -> roadmaps(du, uid, day, message, d1)
      [] h = "blog" -> blog(du, uid, day, message, d1)
      [] h = "dsa" -> dsa(du, uid, day, message, ai, d1, d2)
      [] h = "connect" -> connect(du, uid, day, message, d1)
      [] h = "idea" -> idea(du, uid, day, message, ai, d1, d2)
      [] h = "explain" -> explain(du, uid, day, message, args, ai, d1, d2)
      [] h = "clear" -> clear_chat(du, uid, day, message, d1)
      [] h = "feedback" -> feedback(du, uid, day, message, args, d1)
      [] h = "stats" -> stats(du, uid, day, message, admin, d1)
      [] h = "handle_message" ->
            handle_message(du, uid, day, message, text, defined, ai, d1)

\* ====================================================================
\* Claims
\* ====================================================================

\* C1: on every calendar day the usage count (what stats reads) equals the
\* number of distinct users that sent a tracked event that day, however often
\* each of them wrote; a day with no sighting counts 0.
C1_DistinctUsersPerDay ==
    \A d \in Days : user_count(daily_users, d) = Cardinality(SendersOn(d))

\* C1 witness: two users were counted yesterday, one so far today, and the
\* last event is a free-text message of a user already counted today or not.
C1_Witness ==
    /\ today = 2
    /\ user_count(daily_users, 1) = 2
    /\ user_count(daily_users, 2) = 1
    /\ lastEvent.handler = "handle_message"
    /\ lastEvent.day = 2

\* C2 as stated: when the completion call raises, an AI-backed handler
\* produces exactly one outbound reply for the event, the fixed failure text,
\* and no exception escapes.
C2_Original ==
    LET ev == lastEvent
        r == Replies(ev.trace)
    IN  (AiBacked(ev) /\ ev.ai = "raise") =>
            /\ Len(r) = 1
            /\ r[1].what = FailureText(ev.handler)
            /\ ~ev.escaped

\* C2 amended: when the completion call raises, exactly one reply follows the
\* failed call and it is the fixed failure text; dsa, idea and explain have
\* sent their interim reply before the call, so they produce two outbound
\* replies for the event and handle_message one; no exception escapes.
C2_FailureReply ==
    LET ev == lastEvent
        r == Replies(ev.trace)
        sh == Shape(ev.trace)
        interim == IF ev.handler = "handle_message" THEN <<>>
                   ELSE <<InterimText(ev.handler)>>
    IN  (AiBacked(ev) /\ ev.ai = "raise") =>
            /\ [i \in 1..Len(r) |-> r[i].what]
                   = interim \o <<FailureText(ev.handler)>>
            /\ sh[Len(sh) - 1] = <<"ai", "generate_content">>
            /\ sh[Len(sh)] = <<"reply", FailureText(ev.handler)>>
            /\ ~ev.escaped

\* C2 witness: an explain event whose completion call raised.
C2_Witness ==
    /\ lastEvent.handler = "explain"
    /\ lastEvent.args
    /\ lastEvent.ai = "raise"
    /\ Len(Replies(lastEvent.trace)) = 2

\* C3 as stated: stats from a user other than the administrator, or with no
\* administrator configured, produces no reply; from the user whose
\* identifier equals the configured one, whatever integer it is, exactly one
\* reply carrying the day's distinct-user count.
C3_Original ==
    LET ev == lastEvent
        r == Replies(ev.trace)
    IN  ev.handler = "stats" =>
            IF ADMIN_ID # <<>> /\ ev.uid = ADMIN_ID[1]
            THEN /\ Len(r) = 1
                 /\ r[1].what = "stats_count"
                 /\ r[1].n = Cardinality(SendersOn(ev.day))
            ELSE r = <<>>

\* C4 as stated: every handled event records exactly one sighting for the
\* acting user, stats included; an ignored or malformed event (no text, a
\* missing required argument, an unauthorized stats call) records none.
C4_Original ==
    LET ev == lastEvent
        ignored == \/ (ev.handler = "handle_message" /\ ~(ev.message /\ ev.text))
                   \/ (ev.handler \in {"explain", "feedback"} /\ ~ev.args)
                   \/ (ev.handler = "stats"
                         /\ ~(ADMIN_ID # <<>> /\ ev.uid = ADMIN_ID[1]))
    IN  ev.handler # "none" =>
            Len(Tracks(ev.trace)) = IF ignored THEN 0 ELSE 1

\* C4 amended: every handler except stats records exactly one sighting for
\* the acting user per event, explain and feedback also when their argument
\* is missing; stats (authorized or not) and a free-text update without text
\* record none.
C4_SightingPerEvent ==
    LET ev == lastEvent
    IN  ev.handler # "none" =>
            IF Tracked(ev.handler, ev.message, ev.text)
            THEN /\ Len(Tracks(ev.trace)) = 1
                 /\ ev.day \in DOMAIN daily_users
                 /\ ev.uid \in daily_users[ev.day]
            ELSE Len(Tracks(ev.trace)) = 0

\* C4 witness: an explain event without argument has recorded its sender.
C4_Witness ==
    /\ lastEvent.handler = "explain"
    /\ ~lastEvent.args
    /\ Len(Tracks(lastEvent.trace)) = 1
    /\ lastEvent.uid \in daily_users[lastEvent.day]

\* C5: explain without argument text produces exactly the usage-guidance
\* reply and makes no completion call; no interim or failure reply is sent.
C5_ExplainUsage ==
    LET ev == lastEvent
        r == Replies(ev.trace)
    IN  (ev.handler = "explain" /\ ~ev.args) =>
            /\ Len(r) = 1
            /\ r[1].what = "explain_usage"
            /\ AiCalls(ev.trace) = <<>>
            /\ ~ev.escaped

\* C5 witness: an explain event without argument whose reply was delivered.
C5_Witness ==
    /\ lastEvent.handler = "explain"
    /\ ~lastEvent.args
    /\ \E i \in 1..Len(lastEvent.trace) :
          lastEvent.trace[i] = ReplyStep("explain_usage", 0, "sent")

\* A delivery failed during the last event.
DeliveryFailed(ev) == \E i \in 1..Len(ev.trace) :
    ev.trace[i].op = "reply" /\ ev.trace[i].res = "failed"

\* C6: a raising delivery is never seen by the caller of safe_reply: for
\* every handler, no exception escapes, each reply is attempted once, the
\* handler takes exactly the steps it takes when every delivery succeeds, and
\* the event loop is still polling and can take the next update.
C6_DeliverySwallowed ==
    LET ev == lastEvent
        asIfDelivered == Handle(ev.handler, daily_users, ev.uid, ev.day,
                                ev.message, ev.text, ev.args, ev.ai,
                                "ok", "ok", ADMIN_ID, model)
    IN  (ev.handler # "none" /\ DeliveryFailed(ev)) =>
            /\ ~ev.escaped
            /\ Shape(ev.trace) = Shape(asIfDelivered.trace)
            /\ pc = "polling"
            /\ ENABLED UpdateDone

\* C6 witness: an idea event whose interim delivery failed and that went on
\* to the completion call and the final reply.
C6_Witness ==
    /\ lastEvent.handler = "idea"
    /\ lastEvent.trace[2] = ReplyStep("idea_interim", 0, "failed")
    /\ AiCalls(lastEvent.trace) = <<AiStep("ok")>>
    /\ Len(Replies(lastEvent.trace)) = 2
    /\ pc = "polling"

\* C7: with a credential absent, or the AI client configuration failed, the
\* process never enters the event loop: it gets no further than the
\* validation, no update is dispatched and the listener is never started.
C7_NoEventLoop ==
    LET absent == pc # "import"
                  /\ (TELEGRAM_TOKEN = None \/ GEMINI_API_KEY = None)
        failed == "fatal_ai_configure" \in log
    IN  (absent \/ failed) =>
            /\ pc \in {"validate", "exited"}
            /\ (failed => pc = "exited")
            /\ web = "not_started"
            /\ lastEvent = NoEvent
            /\ "info_polling_starting" \notin log
            /\ "info_web_thread_started" \notin log

\* C7 witness: the process has exited with only one credential absent.
C7_Witness ==
    /\ pc = "exited"
    /\ TELEGRAM_TOKEN = None
    /\ GEMINI_API_KEY = "secret"
    /\ "critical_credentials_not_set" \in log

\* C8: no date of the usage record maps to an empty set.
C8_NoEmptyDay ==
    \A d \in DOMAIN daily_users : daily_users[d] # {}

\* C8 witness: the administrator read the count on a day with no sighting,
\* after sightings on an earlier day.
C8_Witness ==
    /\ lastEvent.handler = "stats"
    /\ \E i \in 1..Len(lastEvent.trace) :
          lastEvent.trace[i].op = "reply" /\ lastEvent.trace[i].n = 0
    /\ lastEvent.day \notin DOMAIN daily_users
    /\ DOMAIN daily_users # {}

\* The main thread ended for one of its own, logged, reasons.
MainExitLogged ==
    log \cap {"critical_credentials_not_set", "fatal_ai_configure",
              "critical_bot_start", "info_polling_stopped"} # {}

C10_StepOrder ==
    LET ev == lastEvent
        final == IF ev.ai = "ok" THEN "response_text" ELSE FailureText(ev.handler)
    IN  /\ Len(AiCalls(ev.trace)) <= 1
        /\ AiBacked(ev) =>
              Shape(ev.trace) =
                IF ev.handler = "handle_message"
                THEN <<(<<"track", "daily_users">>),
                       (<<"ai", "generate_content">>),
                       (<<"reply", final>>)>>
                ELSE <<(<<"track", "daily_users">>),
                       (<<"reply", InterimText(ev.handler)>>),
                       (<<"ai", "generate_content">>),
                       (<<"reply", final>>)>>

\* C10 witness: a dsa event whose interim delivery failed and whose
\* completion call raised.
C10_Witness ==
    /\ lastEvent.handler = "dsa"
    /\ lastEvent.ai = "raise"
    /\ lastEvent.trace[2] = ReplyStep("dsa_interim", 0, "failed")
    /\ AiCalls(lastEvent.trace) = <<AiStep("raised")>>

====
